---- MODULE Spec2Model ----
(***************************************************************************)
(* Boot sequencing, watchdog and Safe Mode fallback of the ocean           *)
(* playground.  The repository holds two generations of the boot code:     *)
(*   "ts": the TypeScript store (setBooting / setError / setSafe,          *)
(*         retryBoot + initializeBoot without a timer), Scene.tsx (the      *)
(*         watchdog lives in a React effect), the Safe* GLTF objects and    *)
(*         the Overlay's BootErrorBanner;                                   *)
(*   "js": the JavaScript store (setBoot, initializeBoot arms the          *)
(*         watchdog at module load), App.jsx and the BootLoader.            *)
(* Both are modelled; `variant` selects the generation a behaviour runs.   *)
(* The utilities the boot code builds on have specifications of their own: *)
(* withTimeout (SpecGuard), withRetry (SpecRetry), batchPreloadGLTF         *)
(* (SpecBatch); SpecOps applies single store operations and one render of   *)
(* the quality settings to every store state.  The dive (DiveSystem, the    *)
(* Dive button, the wheel listener) is part of Spec; generatePositions      *)
(* (SpecLayout), a failure handler between its store writes (SpecObserve),  *)
(* safePreloadGLTF next to the load it starts (SpecPreload) and             *)
(* optimizeForPerformance (SpecPerf) have specifications of their own.      *)
(***************************************************************************)
EXTENDS Integers, FiniteSets, Sequences, TLC

VARIABLES
  variant,          \* "ts" | "js": which generation of store + shell runs
  strictMode,       \* React.StrictMode development double-invocation of effects
  isFile,           \* window.location.protocol === 'file:'
  store,            \* the zustand store: isBooting, bootError, safeMode, ...
  sceneMounted,     \* ts: Scene's effects have run
  canvasCreated,    \* the Canvas onCreated callback has run
  contentCommitted, \* ts: the Canvas children (BootMark, objects) are committed
  initGuardRef,     \* ts: Scene.initGuardRef.current
  watchdogRef,      \* ts: Scene.watchdogRef.current holds a timer handle
  wdTimer,          \* the watchdog timer: "none" | "pending" | "cleared" | "fired"
  wdAttempt,        \* boot attempt in which the watchdog timer was armed
  wdSubscribed,     \* the isBooting subscription that clears the watchdog is active
  bootMark,         \* ts: BootMark's 100 ms timer: "none" | "pending" | "fired"
  objs,             \* ts: Safe* object -> "unmounted" | "gltf" | "procedural"
  attempt,          \* number of retryBoot() calls so far (the current boot attempt)
  loadedIn,         \* ts: Safe* object -> attempt in which the mounted instance
                    \* ran its guarded preload, -1 if it never ran one
  fires,            \* watchdog callbacks that forced Safe Mode in the current attempt
  lastOp,           \* the handler that produced the current state
  prev,             \* the store as that handler found it
  guard,            \* one withTimeout() call: operation, timer, returned promise
  retryRun,         \* one withRetry() call: attempts, delays, result
  batch,            \* one batchPreloadGLTF() call: paths, outcomes, result
  view,             \* the quality settings one render of the scene produced
  dive,             \* DiveSystem: the timelines, timelineRef, the camera height
  layout,           \* one generatePositions() call: arguments, positions
  preload,          \* one safePreloadGLTF() call: the load, the guard, the result
  perf,             \* usePerformanceMonitor: the quality settings it adapts
  txn               \* a handler between its store writes: the writes left to do

vars == <<variant, strictMode, isFile, store, sceneMounted, canvasCreated,
          contentCommitted, initGuardRef, watchdogRef, wdTimer, wdAttempt,
          wdSubscribed, bootMark, objs, loadedIn, attempt, fires, lastOp, prev,
          guard, retryRun, batch, view, dive, layout, preload, perf, txn>>

\* The variables of the remaining utility specifications.
extraVars == <<layout, preload, perf, txn>>

\* The variables of the utility calls, which the boot handlers never touch.
utilVars == <<guard, retryRun, batch, view, extraVars>>

\* Bound on the number of retries explored.
MaxAttempts == 2

null == "null"
BootErrors == {"BOOT_TIMEOUT", "WEBGL_FAIL", "ASSET_TIMEOUT", "INIT_ERROR"}
Variants == {"ts", "js"}
Objs == {"floatRing", "treasureChest", "glassBottle"}

\* Outcomes of the capability probe in handleCanvasCreated.
ProbeOutcomes == {"ok", "noGl", "noContext", "clearThrows", "badCamera"}

\* Outcomes of useGLTF.preload inside safePreloadGLTF: it returns or throws.
PreloadOutcomes == {"ok", "throws"}

(***************************************************************************)
(* The store and its actions                                               *)
(***************************************************************************)
\* depth is a number between 0 and 1; the model counts it in units of 1/780,
\* in which the depths the code computes from the camera keyframes and the
\* literals 0.4 and 0.1 are all integers.
DepthOne == 780
ShallowDepth == 312
SurfaceLimit == 78

\* camera.position.y in tenths: the surface and the keyframes of the dive.
CameraSurface == 65
DiveKeyframes == <<65, 28, 19, 2, 0 - 13>>

\* Math.max(0, Math.min(1, x))
Clamp01(x) == IF x < 0 THEN 0 ELSE IF x > DepthOne THEN DepthOne ELSE x

\* (6.5 - currentY) / 7.8, clamped, for a camera height in tenths.
NormalizedDepth(y) == Clamp01((CameraSurface - y) * 10)

Depths ==
  {NormalizedDepth(DiveKeyframes[i]) : i \in DOMAIN DiveKeyframes}
    \cup {ShallowDepth}

InitialStore ==
  [isBooting |-> TRUE, bootError |-> null, safeMode |-> FALSE,
   protocolWarning |-> FALSE, lowPowerMode |-> FALSE, isMobile |-> FALSE,
   depth |-> 0, isDiving |-> FALSE, canResurface |-> FALSE,
   prefersReducedMotion |-> FALSE]

StoreStates ==
  [isBooting : BOOLEAN, bootError : BootErrors \cup {null}, safeMode : BOOLEAN,
   protocolWarning : BOOLEAN, lowPowerMode : BOOLEAN, isMobile : BOOLEAN,
   depth : Depths, isDiving : BOOLEAN, canResurface : BOOLEAN,
   prefersReducedMotion : BOOLEAN]

setBooting(s, booting) == [s EXCEPT !.isBooting = booting]

setError(s, error) == [s EXCEPT !.bootError = error]

setSafe(s, safe) == [s EXCEPT !.safeMode = safe]

\* js: setBoot(isBooting, bootError = null, safeMode = null); the optional
\* safeMode argument is {} for null and {b} for the boolean b.
setBoot(s, booting, error, safeArg) ==
  [s EXCEPT !.isBooting = booting,
            !.bootError = error,
            !.safeMode = IF safeArg # {} THEN CHOOSE b \in safeArg : TRUE
                         ELSE s.safeMode]

\* initializePreferences: mobile detection, low power auto-enabled on mobile.
initializePreferences(s, mobile, reduced) ==
  [s EXCEPT !.prefersReducedMotion = reduced, !.isMobile = mobile,
            !.lowPowerMode = mobile]

toggleLowPowerMode(s) == [s EXCEPT !.lowPowerMode = ~s.lowPowerMode]

setDepth_NoClamp(s, depth) == [s EXCEPT !.depth = depth]

setDepth(s, depth) == [s EXCEPT !.depth = Clamp01(depth)]

setDiving(s, diving) == [s EXCEPT !.isDiving = diving]

setCanResurface(s, can) == [s EXCEPT !.canResurface = can]

\* handleFirstScroll: only outside booting and outside a dive; with reduced
\* motion the animation is skipped.
handleFirstScroll(s) ==
  IF ~s.isDiving /\ ~s.isBooting
  THEN IF s.prefersReducedMotion
       THEN [s EXCEPT !.depth = ShallowDepth, !.isDiving = FALSE,
                      !.canResurface = TRUE]
       ELSE [s EXCEPT !.isDiving = TRUE]
  ELSE s

\* The store part of initializeBoot (both generations): the protocol check.
initializeBoot_AsError(s, file) ==
  IF file THEN [s EXCEPT !.protocolWarning = TRUE, !.bootError = "INIT_ERROR"]
  ELSE s

initializeBoot(s, file) ==
  IF file THEN [s EXCEPT !.protocolWarning = TRUE] ELSE s

\* retryBoot that forgets to leave Safe Mode.
retryBootTS_KeepSafe(s, file) ==
  initializeBoot([s EXCEPT !.isBooting = TRUE, !.bootError = null], file)

\* ts: retryBoot resets the three fields and calls initializeBoot.
retryBootTS(s, file) ==
  initializeBoot([s EXCEPT !.isBooting = TRUE, !.bootError = null,
                           !.safeMode = FALSE], file)

\* js: retryBoot only resets the three fields.
retryBootJS(s) ==
  [s EXCEPT !.isBooting = TRUE, !.bootError = null, !.safeMode = FALSE]

retryBoot(v, s, file) ==
  IF v = "ts" THEN retryBootTS(s, file) ELSE retryBootJS(s)

\* A watchdog callback that reports the timeout without entering Safe Mode.
WatchdogCallbackTS_NoSafe(s) ==
  IF s.isBooting
  THEN setBooting(setError(s, "BOOT_TIMEOUT"), FALSE)
  ELSE s

\* ts: the watchdog callback armed by Scene's effect.
WatchdogCallbackTS(s) ==
  IF s.isBooting
  THEN setBooting(setError(setSafe(s, TRUE), "BOOT_TIMEOUT"), FALSE)
  ELSE s

\* A watchdog callback without the isBooting check.
WatchdogCallbackJS_NoGuard(s) ==
  [s EXCEPT !.safeMode = TRUE, !.bootError = "BOOT_TIMEOUT",
            !.isBooting = FALSE]

\* js: the watchdog callback armed by initializeBoot.
WatchdogCallbackJS(s) ==
  IF s.isBooting
  THEN [s EXCEPT !.safeMode = TRUE, !.bootError = "BOOT_TIMEOUT",
                 !.isBooting = FALSE]
  ELSE s

WatchdogCallback(v, s) ==
  IF v = "ts" THEN WatchdogCallbackTS(s) ELSE WatchdogCallbackJS(s)

\* ts: handleCanvasCreated of Scene.tsx, the capability probe.
handleCanvasCreatedTS_NoSafe(s, probe) ==
  IF probe = "ok"
  THEN setBooting(s, FALSE)
  ELSE setBooting(setError(s, "WEBGL_FAIL"), FALSE)

handleCanvasCreatedTS(s, probe) ==
  IF probe = "ok"
  THEN setBooting(s, FALSE)
  ELSE setBooting(setError(setSafe(s, TRUE), "WEBGL_FAIL"), FALSE)

\* js: handleCanvasCreated of App.jsx.
handleCanvasCreatedJS(s, probe) ==
  IF probe = "ok"
  THEN setBoot(s, FALSE, null, {})
  ELSE setBoot(s, FALSE, "WEBGL_FAIL", {TRUE})

\* js: the BootLoader's "Continue in Safe Mode" button.
continueInSafeMode_Reboot(s) == setBoot(s, TRUE, null, {FALSE})

continueInSafeMode(s) == setBoot(s, FALSE, null, {FALSE})

\* safePreloadGLTF: the state it leaves and the boolean it resolves to.
safePreloadGLTF(s, outcome) ==
  IF outcome = "ok"
  THEN [state |-> s, result |-> TRUE]
  ELSE [state |-> setSafe(setError(s, IF outcome = "timeout"
                                       THEN "ASSET_TIMEOUT"
                                       ELSE "INIT_ERROR"), TRUE),
        result |-> FALSE]

(***************************************************************************)
(* Phases of the specification in terms of the store                       *)
(***************************************************************************)
Phase(s) ==
  IF s.isBooting THEN "Booting"
  ELSE IF s.bootError # null THEN "Degraded" ELSE "Running"

(***************************************************************************)
(* Timers, subscriptions and mounted objects                               *)
(***************************************************************************)
\* A cancellation that is never issued.
ClearTimeout_Noop(t) == t

ClearTimeout(t) == IF t = "pending" THEN "cleared" ELSE t

\* The isBooting subscription: it runs when the selected value changed.
\* ts (Scene.tsx): clears the timer if the ref holds one, and nulls the ref.
\* js (initializeBoot): clears the timer and unsubscribes.
SubscriptionFires(old, new) ==
  /\ wdSubscribed
  /\ old.isBooting # new.isBooting
  /\ ~new.isBooting

TimerAfterSet(t, ref, old, new) ==
  IF SubscriptionFires(old, new) /\ (variant = "ts" => ref)
  THEN ClearTimeout(t) ELSE t

RefAfterSet(ref, old, new) ==
  IF SubscriptionFires(old, new) THEN FALSE ELSE ref

SubscribedAfterSet(old, new) ==
  IF variant = "js" /\ SubscriptionFires(old, new) THEN FALSE ELSE wdSubscribed

\* SafeObjectsCluster: main-0 is the float ring, main-1 the chest, main-2 the
\* bottle; mainObjectCount decides how many of them are rendered.
ObjIndex(o) ==
  CASE o = "floatRing" -> 0
    [] o = "treasureChest" -> 1
    [] o = "glassBottle" -> 2

mainObjectCount(s) ==
  IF s.safeMode THEN 2 ELSE IF s.lowPowerMode THEN 2 ELSE 3

ShouldMount(o, s) == ObjIndex(o) < mainObjectCount(s)

\* React unmounts the objects the new layout no longer contains.
Reconcile(os, s) ==
  [o \in Objs |-> IF ShouldMount(o, s) THEN os[o] ELSE "unmounted"]

\* The effect of a Safe* object: procedural at once in Safe Mode, otherwise
\* the variant the guarded preload's result selects.
MountedAs(s, outcome) ==
  IF s.safeMode THEN "procedural"
  ELSE IF safePreloadGLTF(s, outcome).result THEN "gltf" ELSE "procedural"

\* The preloads of the objects in S settle one after the other.
ObjOrder == <<"floatRing", "treasureChest", "glassBottle">>

RECURSIVE PreloadAll(_, _, _, _)
PreloadAll(s, S, outs, i) ==
  IF i > Len(ObjOrder) THEN s
  ELSE PreloadAll(IF ObjOrder[i] \in S
                  THEN safePreloadGLTF(s, outs[ObjOrder[i]]).state ELSE s,
                  S, outs, i + 1)

\* The preload record of an unmounted instance is gone with it.
NeverLoaded == 0 - 1

ReconcileLoads(ls, s) ==
  [o \in Objs |-> IF ShouldMount(o, s) THEN ls[o] ELSE NeverLoaded]

\* The effect of a Safe* object starts the guarded preload unless Safe Mode
\* is on.
StartsPreload(s) == ~s.safeMode

(***************************************************************************)
(* DiveSystem.  Its state is the record                                     *)
(*   diving     the dive timeline is playing,                               *)
(*   surfacing  the surface timeline is playing,                            *)
(*   ref        timelineRef.current is set,                                 *)
(*   cleanup    the last run of the dive effect returned its cleanup,       *)
(*   cameraY    camera.position.y in tenths,                                *)
(*   wheel      js: the once-only wheel listener is registered.             *)
(* The tweens are sampled at their keyframes.                               *)
(***************************************************************************)
NoDive ==
  [diving |-> FALSE, surfacing |-> FALSE, ref |-> FALSE, cleanup |-> FALSE,
   cameraY |-> CameraSurface, wheel |-> FALSE]

\* The cleanup of the dive effect: ts kills the timeline the run created,
\* js kills timelineRef.current, the dive or the surface timeline.
DiveEffectCleanup(v, d) ==
  IF ~d.cleanup THEN d
  ELSE IF v = "ts" THEN [d EXCEPT !.diving = FALSE, !.cleanup = FALSE]
  ELSE [d EXCEPT !.diving = FALSE, !.surfacing = FALSE, !.cleanup = FALSE]

\* One run of the body of the dive effect on the store s.
DiveEffectBody(v, d, s) ==
  IF ~s.isDiving \/ s.isBooting THEN d
  ELSE IF v = "ts"
       THEN IF d.ref THEN d
            ELSE [d EXCEPT !.diving = TRUE, !.ref = TRUE, !.cleanup = TRUE]
       ELSE [d EXCEPT !.surfacing = FALSE, !.diving = TRUE, !.ref = TRUE,
                      !.cleanup = TRUE]

\* The dependencies of the dive effect that the store holds.
DiveDepsChanged(v, old, new) ==
  \/ old.isDiving # new.isDiving
  \/ old.prefersReducedMotion # new.prefersReducedMotion
  \/ v = "ts" /\ old.isBooting # new.isBooting

\* DiveSystem mounts: the dive effect runs (twice, with the cleanup between,
\* under StrictMode); js registers the wheel listener.
DiveMount(v, d, s, strict) ==
  LET once == DiveEffectBody(v, d, s)
      run == IF strict THEN DiveEffectBody(v, DiveEffectCleanup(v, once), s)
             ELSE once
  IN [run EXCEPT !.wheel = (v = "js")]

\* DiveSystem re-renders after a store write: the effects whose
\* dependencies changed run again.
DiveAfterSet(v, mounted, d, old, new) ==
  IF ~mounted THEN d
  ELSE LET e == IF DiveDepsChanged(v, old, new)
                THEN DiveEffectBody(v, DiveEffectCleanup(v, d), new)
                ELSE d
       IN IF v = "js" /\ (old.isDiving # new.isDiving \/ old.depth # new.depth)
          THEN [e EXCEPT !.wheel = TRUE]
          ELSE e

\* The next keyframe of the dive below the camera height y.
NextKeyframe(y) ==
  IF \E i \in 1..(Len(DiveKeyframes) - 1) : DiveKeyframes[i] = y
  THEN DiveKeyframes[(CHOOSE i \in 1..(Len(DiveKeyframes) - 1) :
                        DiveKeyframes[i] = y) + 1]
  ELSE y

DiveEnd == DiveKeyframes[Len(DiveKeyframes)]

\* DiveSystem is a child of the Canvas.
DiveSystemMounted ==
  IF variant = "ts" THEN contentCommitted ELSE canvasCreated

\* Write the store, run the subscription, re-render; d is DiveSystem as the
\* handler left it.
CommitFrom(new, timerNow, d) ==
  /\ store' = new
  /\ prev' = store
  /\ wdTimer' = TimerAfterSet(timerNow, watchdogRef, store, new)
  /\ watchdogRef' = RefAfterSet(watchdogRef, store, new)
  /\ wdSubscribed' = SubscribedAfterSet(store, new)
  /\ objs' = Reconcile(objs, new)
  /\ loadedIn' = ReconcileLoads(loadedIn, new)
  /\ dive' = DiveAfterSet(variant, DiveSystemMounted, d, store, new)

Commit(new, timerNow) == CommitFrom(new, timerNow, dive)

(***************************************************************************)
(* ts: the watchdog effect of Scene                                        *)
(***************************************************************************)
\* One run of the effect body on the refs [guard, timer, ref].
SceneWatchdogEffect(e) ==
  IF e.guard THEN e
  ELSE [guard |-> TRUE, timer |-> "pending", ref |-> TRUE]

\* The cleanup the effect returns.
SceneWatchdogCleanup(e) ==
  IF e.ref THEN [e EXCEPT !.timer = ClearTimeout(e.timer), !.ref = FALSE]
  ELSE e

\* Mount: the effect runs; under StrictMode React then runs the cleanup and
\* the effect once more on the same refs.
SceneMountEffects(e, strict) ==
  IF strict
  THEN SceneWatchdogEffect(SceneWatchdogCleanup(SceneWatchdogEffect(e)))
  ELSE SceneWatchdogEffect(e)

(***************************************************************************)
(* utils/withTimeout.ts: withTimeout.  One call is the record                *)
(*   op      the wrapped promise,                                           *)
(*   jobs    a reaction of op is queued as a microtask,                     *)
(*   timer   the setTimeout handle, due at time `due`,                      *)
(*   promise the promise withTimeout returned,                              *)
(*   settles how often `promise` changed state, first: the event that came  *)
(*   first (the operation settling or the timer callback), now: the clock.  *)
(***************************************************************************)
\* Bound on the clock of a withTimeout call.
MaxTime == 2

Deadlines == (0 - 1)..MaxTime
Labels == {"TIMEOUT", "ASSET_TIMEOUT"}
OpValues == {"gltf"}
OpErrors == {"NETWORK_ERROR"}

PendingPromise == [state |-> "pending", with |-> null]
Fulfilled(v) == [state |-> "fulfilled", with |-> v]
Rejected(e) == [state |-> "rejected", with |-> e]
Promises ==
  {PendingPromise} \cup {Fulfilled(v) : v \in OpValues}
                   \cup {Rejected(e) : e \in OpErrors \cup Labels}

\* The resolve and reject functions of the Promise constructor: only the
\* first call settles the promise.
PromiseResolve(p, v) == IF p.state = "pending" THEN Fulfilled(v) ELSE p
PromiseReject(p, e) == IF p.state = "pending" THEN Rejected(e) ELSE p

\* setTimeout treats a negative delay as 0.
TimerDelay(ms) == IF ms < 0 THEN 0 ELSE ms

NoGuard ==
  [ms |-> 0, label |-> "TIMEOUT", op |-> PendingPromise, jobs |-> FALSE,
   timer |-> "none", due |-> 0, promise |-> PendingPromise, settles |-> 0,
   first |-> "none", now |-> 0]

\* The call: the executor arms the timer and attaches then/catch to the
\* operation; a reaction of an already settled operation is queued at once.
withTimeout(promise, ms, label) ==
  [ms |-> ms, label |-> label, op |-> promise,
   jobs |-> promise.state # "pending",
   timer |-> "pending", due |-> TimerDelay(ms), promise |-> PendingPromise,
   settles |-> 0,
   first |-> IF promise.state # "pending" THEN "op" ELSE "none",
   now |-> 0]

\* .then(result => { clearTimeout(timeoutId); resolve(result) })
GuardOnFulfilled(g) ==
  [g EXCEPT !.timer = ClearTimeout(@),
            !.promise = PromiseResolve(@, g.op.with)]

\* .catch(error => { clearTimeout(timeoutId); reject(error) })
GuardOnRejected_AsTimeout(g) ==
  [g EXCEPT !.timer = ClearTimeout(@),
            !.promise = PromiseReject(@, g.label)]

GuardOnRejected(g) ==
  [g EXCEPT !.timer = ClearTimeout(@),
            !.promise = PromiseReject(@, g.op.with)]

\* setTimeout(() => reject(new Error(label)), ms)
GuardOnTimeout(g) ==
  [g EXCEPT !.timer = "fired",
            !.promise = PromiseReject(@, g.label)]

\* The queued reaction of the settled operation runs.
GuardReaction(g) ==
  IF g.op.state = "fulfilled" THEN GuardOnFulfilled(g) ELSE GuardOnRejected(g)

\* Ghost: count a change of state of the returned promise.
CountSettle(old, new) ==
  [new EXCEPT !.settles = IF new.promise # old.promise THEN @ + 1 ELSE @]

(***************************************************************************)
(* utils/withTimeout.ts: withRetry.  One call is the record                 *)
(*   maxRetries, baseDelay: the arguments,                                  *)
(*   attempt   the loop variable, lastError: the error caught last,         *)
(*   calls     how often promiseFactory was invoked, outcomes: what each    *)
(*             invocation did, delays: the delays waited so far,            *)
(*   result    the promise withRetry returned.                              *)
(* The k-th invocation (k from 0) fulfils with the value k or fails with    *)
(* the error k, so that a result names the attempt it came from.            *)
(***************************************************************************)
\* Bound on maxRetries.
MaxRetries == 3

BaseDelays == {0, 1, 1000}
FactoryOutcomes == {"ok", "fail"}

RECURSIVE Pow2(_)
Pow2(k) == IF k = 0 THEN 1 ELSE 2 * Pow2(k - 1)

\* const delayMs = baseDelay * Math.pow(2, attempt)
RetryDelay_Constant(baseDelay, k) == baseDelay

RetryDelay(baseDelay, k) == baseDelay * Pow2(k)

NoRetryRun ==
  [pc |-> "idle", maxRetries |-> 0, baseDelay |-> 0, attempt |-> 0,
   lastError |-> 0 - 1, calls |-> 0, outcomes |-> <<>>, delays |-> <<>>,
   result |-> [state |-> "pending", with |-> 0 - 1]]

\* The call: the loop starts with attempt = 0.
withRetry(maxRetries, baseDelay) ==
  [NoRetryRun EXCEPT !.pc = "invoke", !.maxRetries = maxRetries,
                     !.baseDelay = baseDelay]

\* try { return await promiseFactory() }: the factory is invoked.
RetryInvokeFactory(r) ==
  [r EXCEPT !.pc = "awaiting", !.calls = @ + 1]

\* The awaited promise fulfilled: withRetry returns its value.
RetryOnSuccess(r) ==
  [r EXCEPT !.pc = "done", !.outcomes = Append(@, "ok"),
            !.result = [state |-> "fulfilled", with |-> r.attempt]]

\* catch (error): throw after the last attempt, otherwise start the delay.
RetryOnFailure(r) ==
  IF r.attempt = r.maxRetries
  THEN [r EXCEPT !.pc = "done", !.outcomes = Append(@, "fail"),
                 !.lastError = r.attempt,
                 !.result = [state |-> "rejected", with |-> r.attempt]]
  ELSE [r EXCEPT !.pc = "delay", !.outcomes = Append(@, "fail"),
                 !.lastError = r.attempt,
                 !.delays = Append(@, RetryDelay(r.baseDelay, r.attempt))]

\* The delay elapsed: attempt++ and the loop condition holds.
RetryNextAttempt(r) ==
  [r EXCEPT !.pc = "invoke", !.attempt = @ + 1]

(***************************************************************************)
(* objects/safeLoadGLTF.ts: batchPreloadGLTF.  One call is the record       *)
(*   paths, allowPartialFailure: the arguments,                             *)
(*   outs     what useGLTF.preload does for each path,                      *)
(*   results  the settled results Promise.allSettled has collected so far,  *)
(*   success, failed, returned: the value the call returns.                 *)
(***************************************************************************)
\* Bound on the number of paths handed to one batch.
MaxPaths == 3

Paths == {"/models/ring.glb", "/models/chest.glb", "/models/bottle.glb"}

RECURSIVE SeqsUpTo(_, _)
SeqsUpTo(S, n) ==
  IF n = 0 THEN {<<>>}
  ELSE LET shorter == SeqsUpTo(S, n - 1)
       IN shorter \cup {Append(q, x) : q \in shorter, x \in S}

NoBatch ==
  [pc |-> "idle", paths |-> <<>>, allowPartialFailure |-> TRUE,
   outs |-> [p \in Paths |-> "ok"], results |-> <<>>,
   success |-> <<>>, failed |-> <<>>, returned |-> "pending"]

\* The call: paths.map starts one safePreloadGLTF per path.
batchPreloadGLTF(paths, allowPartialFailure, outs) ==
  [NoBatch EXCEPT !.pc = "loading", !.paths = paths,
                  !.allowPartialFailure = allowPartialFailure, !.outs = outs]

\* An async function whose body is one try/catch: its promise fulfils with
\* the boolean in both branches.
SettledResult(r) == [status |-> "fulfilled", value |-> r]

\* results.forEach: a path goes to success if its result is fulfilled with
\* true, to failed otherwise.
RECURSIVE CollectResults_AnyFulfilled(_, _, _, _)
CollectResults_AnyFulfilled(paths, results, i, acc) ==
  IF i > Len(results) THEN acc
  ELSE CollectResults_AnyFulfilled(paths, results, i + 1,
         IF results[i].status = "fulfilled"
         THEN [acc EXCEPT !.success = Append(@, paths[i])]
         ELSE [acc EXCEPT !.failed = Append(@, paths[i])])

RECURSIVE CollectResults(_, _, _, _)
CollectResults(paths, results, i, acc) ==
  IF i > Len(results) THEN acc
  ELSE CollectResults(paths, results, i + 1,
         IF results[i].status = "fulfilled" /\ results[i].value
         THEN [acc EXCEPT !.success = Append(@, paths[i])]
         ELSE [acc EXCEPT !.failed = Append(@, paths[i])])

\* The escalation after the loop.
BatchEscalate(s, success, allowPartialFailure) ==
  IF Len(success) = 0 /\ ~allowPartialFailure
  THEN setError(setSafe(s, TRUE), "ASSET_TIMEOUT")
  ELSE s

(***************************************************************************)
(* The quality settings a render derives from the store.                    *)
(*   ts: Scene.tsx (canvasProps, the PostProcessingEffects gate),           *)
(*       SafeObjectsCluster.tsx, EnhancedBubbleSystem;                      *)
(*   js: App.jsx (canvasProps, PostProcessingEffects rendered always),      *)
(*       ObjectsCluster.jsx, EnhancedBubbleSystem.                          *)
(* dpr is the [min, max] pair of the Canvas in units of 0.5.                *)
(***************************************************************************)
canvasProps(s) ==
  [shadows |-> ~s.lowPowerMode /\ ~s.isMobile /\ ~s.safeMode,
   dpr |-> IF s.lowPowerMode \/ s.safeMode THEN <<2, 2>>
           ELSE IF s.isMobile THEN <<2, 3>> ELSE <<2, 4>>,
   antialias |-> ~s.isMobile /\ ~s.lowPowerMode /\ ~s.safeMode]

\* PostProcessingEffects.jsx returns null in low power mode.
PostProcessingEffects(s) == ~s.lowPowerMode

\* Scene.tsx: {!safeMode && <PostProcessingEffects />}; App.jsx renders it
\* unconditionally.
postProcessingTS(s) == ~s.safeMode /\ PostProcessingEffects(s)
postProcessingJS(s) == PostProcessingEffects(s)

\* SafeObjectsCluster.tsx
decorativeCount(s) ==
  IF s.safeMode THEN 3
  ELSE IF s.lowPowerMode THEN 5 ELSE IF s.isMobile THEN 8 ELSE 12

\* ObjectsCluster.jsx
mainObjectCountJS(s) == IF s.lowPowerMode THEN 2 ELSE 3
decorativeCountJS(s) ==
  IF s.lowPowerMode THEN 5 ELSE IF s.isMobile THEN 8 ELSE 15

\* EnhancedBubbleSystem
bubbleCount(s) ==
  IF s.lowPowerMode THEN 30 ELSE IF s.isMobile THEN 60 ELSE 150

\* One render of the scene of generation v on the store s.
Render(v, s) ==
  [shadows |-> canvasProps(s).shadows,
   dpr |-> canvasProps(s).dpr,
   antialias |-> canvasProps(s).antialias,
   postProcessing |-> IF v = "ts" THEN postProcessingTS(s)
                      ELSE postProcessingJS(s),
   mainObjects |-> IF v = "ts" THEN mainObjectCount(s)
                   ELSE mainObjectCountJS(s),
   decorativeObjects |-> IF v = "ts" THEN decorativeCount(s)
                         ELSE decorativeCountJS(s),
   bubbles |-> bubbleCount(s)]

NoView ==
  [shadows |-> FALSE, dpr |-> <<0, 0>>, antialias |-> FALSE,
   postProcessing |-> FALSE, mainObjects |-> 0, decorativeObjects |-> 0,
   bubbles |-> 0]

(***************************************************************************)
(* SafeObjectsCluster: SeededRandom and generatePositions.  float() is      *)
(* rounded down to a multiple of 1/FloatSteps, so coordinates and distances *)
(* are integers in units of 1/FloatSteps.                                   *)
(***************************************************************************)
LcgModulus == 2147483647
LcgMultiplier == 16807
FloatSteps == 16
maxAttempts == 30
MaxCount == 3

\* new SeededRandom(seed)
SeededRandom(seed) ==
  LET s == seed % LcgModulus
  IN IF s <= 0 THEN s + (LcgModulus - 1) ELSE s

\* next(): (seed * 16807) % 2147483647, computed without leaving 32 bits
\* (a * (s mod q) - r * (s div q), with q = m div a and r = m mod a).
rngNext(s) ==
  LET q == LcgModulus \div LcgMultiplier
      r == LcgModulus % LcgMultiplier
      t == LcgMultiplier * (s % q) - r * (s \div q)
  IN IF t > 0 THEN t ELSE t + LcgModulus

\* float() of the value n that next() returned, in 1/FloatSteps.
rngFloat(n) == (n - 1) \div ((LcgModulus - 1) \div FloatSteps + 1)

\* range(min, max) of the value n that next() returned, in 1/FloatSteps.
rngRange(min, max, n) == min * FloatSteps + rngFloat(n) * (max - min)

\* distance < minDistance
TooClose(a, b, minDistance) ==
  LET dx == a[1] - b[1]
      dz == a[2] - b[2]
      m == minDistance * FloatSteps
  IN minDistance > 0 /\ dx * dx + dz * dz < m * m

\* The candidate drawn from the generator state s, and the state after.
Candidate(bounds, s) ==
  LET n1 == rngNext(s)
      n2 == rngNext(n1)
  IN [at |-> <<rngRange(bounds.minX, bounds.maxX, n1),
               rngRange(bounds.minZ, bounds.maxZ, n2)>>,
      seed |-> n2]

NoLayout ==
  [pc |-> "idle", count |-> 0,
   bounds |-> [minX |-> 0, maxX |-> 0, minZ |-> 0, maxZ |-> 0],
   minDistance |-> 0, dev |-> FALSE, seed |-> 1, positions |-> <<>>,
   i |-> 0, attempt |-> 0]

\* generatePositions(count, bounds, minDistance, rng) is called.
generatePositions(count, bounds, minDistance, seed, dev) ==
  [pc |-> "placing", count |-> count, bounds |-> bounds,
   minDistance |-> minDistance, dev |-> dev, seed |-> SeededRandom(seed),
   positions |-> <<>>, i |-> 0, attempt |-> 0]

\* One pass of the inner loop: a candidate is drawn and checked.
PlaceAttempt(l) ==
  LET c == Candidate(l.bounds, l.seed)
      valid == \A k \in 1..Len(l.positions) :
                 ~TooClose(c.at, l.positions[k], l.minDistance)
  IN IF valid
     THEN [l EXCEPT !.seed = c.seed, !.positions = Append(@, c.at),
                    !.i = @ + 1, !.attempt = 0]
     ELSE [l EXCEPT !.seed = c.seed, !.attempt = @ + 1]

\* The fallback after maxAttempts rejected candidates: the development
\* build places a random position, the production build places none.
PlaceFallback(l) ==
  LET c == Candidate(l.bounds, l.seed)
  IN IF l.dev
     THEN [l EXCEPT !.seed = c.seed, !.positions = Append(@, c.at),
                    !.i = @ + 1, !.attempt = 0]
     ELSE [l EXCEPT !.i = @ + 1, !.attempt = 0]
(***************************************************************************)
(* One safePreloadGLTF(path, timeoutMs) call next to the load it started:   *)
(*   sync     what useGLTF.preload(path) did synchronously,                 *)
(*   load     the asset load itself: "pending" | "loaded" | "failed",       *)
(*   result   what the call returned, loadAtReturn: the load at that time.  *)
(* The guard of the call is the variable `guard`.                           *)
(***************************************************************************)
NoPreload ==
  [pc |-> "idle", sync |-> "ok", timeoutMs |-> 0, load |-> "pending",
   result |-> "none", loadAtReturn |-> "pending"]

\* new Promise((resolve, reject) => { try { useGLTF.preload(path); resolve() }
\* catch (error) { reject(error) } })
preloadPromise(sync) ==
  IF sync = "ok" THEN PromiseResolve(PendingPromise, "gltf")
  ELSE PromiseReject(PendingPromise, "NETWORK_ERROR")

\* The call up to its await.
PreloadCall(sync, timeoutMs) ==
  [pc |-> "awaiting", sync |-> sync, timeoutMs |-> timeoutMs,
   load |-> IF sync = "ok" THEN "pending" ELSE "failed",
   result |-> "none", loadAtReturn |-> "pending"]

\* What the await of the guard yields, as an outcome of safePreloadGLTF.
AwaitOutcome(g) ==
  IF g.promise.state = "fulfilled" THEN "ok"
  ELSE IF g.promise.with = "ASSET_TIMEOUT" THEN "timeout"
  ELSE "throws"
(***************************************************************************)
(* usePerformanceMonitor: optimizeForPerformance on the adaptive settings.  *)
(* jellyfishCount is a fraction after * 0.7 or * 1.2; the model counts it   *)
(* in tenths, in which every value the chosen initial counts lead to is an  *)
(* integer or is replaced by the floor 60 or by the initial count.          *)
(***************************************************************************)
Tenths == 10
JellyfishFloor == 60
SharkFloor == 1
qualities == <<"high", "medium", "low", "off">>

\* qualities.indexOf(q), counted from 1.
IndexOf(q) == CHOOSE k \in DOMAIN qualities : qualities[k] = q

Least(a, b) == IF a < b THEN a ELSE b
Greatest(a, b) == IF a > b THEN a ELSE b

\* The low-FPS branch: the first step that still applies.
Degrade(prevSettings) ==
  IF prevSettings.jellyfishCount > JellyfishFloor * Tenths
  THEN [prevSettings EXCEPT !.jellyfishCount =
          Greatest(JellyfishFloor * Tenths, (@ * 7) \div 10)]
  ELSE IF prevSettings.sharkCount > SharkFloor
  THEN [prevSettings EXCEPT !.sharkCount = Greatest(SharkFloor, @ - 1)]
  ELSE IF prevSettings.enablePostProcessing
  THEN [prevSettings EXCEPT !.enablePostProcessing = FALSE]
  ELSE IF prevSettings.shadowQuality # "off"
  THEN [prevSettings EXCEPT !.shadowQuality =
          qualities[Least(IndexOf(@) + 1, Len(qualities))]]
  ELSE IF prevSettings.enableCaustics
  THEN [prevSettings EXCEPT !.enableCaustics = FALSE]
  ELSE IF prevSettings.enableVolumetricFog
  THEN [prevSettings EXCEPT !.enableVolumetricFog = FALSE]
  ELSE prevSettings

\* The high-FPS branch; newSettings is a copy of prev, so its first test
\* compares a field with itself.
Improve(prevSettings, initialSettings) ==
  LET newSettings == prevSettings
  IN IF ~newSettings.enableVolumetricFog /\ prevSettings.enableVolumetricFog
     THEN [newSettings EXCEPT !.enableVolumetricFog = TRUE]
     ELSE IF ~newSettings.enableCaustics
     THEN [newSettings EXCEPT !.enableCaustics = TRUE]
     ELSE IF newSettings.shadowQuality = "off"
     THEN [newSettings EXCEPT !.shadowQuality = "low"]
     ELSE IF ~newSettings.enablePostProcessing
     THEN [newSettings EXCEPT !.enablePostProcessing = TRUE]
     ELSE IF newSettings.sharkCount < initialSettings.sharkCount
     THEN [newSettings EXCEPT !.sharkCount = @ + 1]
     ELSE IF newSettings.jellyfishCount < initialSettings.jellyfishCount
     THEN [newSettings EXCEPT !.jellyfishCount =
             Least(initialSettings.jellyfishCount, (@ * 12) \div 10)]
     ELSE newSettings

\* currentFps < targetFps * 0.8, currentFps > targetFps * 1.2
FpsBand(currentFps, targetFps) ==
  IF currentFps * 10 < targetFps * 8 THEN "low"
  ELSE IF currentFps * 10 > targetFps * 12 THEN "high"
  ELSE "ok"

optimizeForPerformance(prevSettings, initialSettings, currentFps, targetFps) ==
  IF FpsBand(currentFps, targetFps) = "low" THEN Degrade(prevSettings)
  ELSE IF FpsBand(currentFps, targetFps) = "high"
  THEN Improve(prevSettings, initialSettings)
  ELSE prevSettings

AdaptiveSettings ==
  [targetFps : {45}, jellyfishCount : {50 * Tenths, 60 * Tenths, 100 * Tenths},
   sharkCount : {0, 1, 3}, enablePostProcessing : BOOLEAN,
   shadowQuality : {"off", "low", "medium", "high"},
   enableCaustics : BOOLEAN, enableVolumetricFog : BOOLEAN]

FpsSamples == {30, 45, 60}

NoSettings ==
  [targetFps |-> 45, jellyfishCount |-> 0, sharkCount |-> 0,
   enablePostProcessing |-> FALSE, shadowQuality |-> "off",
   enableCaustics |-> FALSE, enableVolumetricFog |-> FALSE]

NoPerf ==
  [pc |-> "idle", initialSettings |-> NoSettings,
   adaptiveSettings |-> NoSettings, before |-> NoSettings]

\* usePerformanceMonitor(initialSettings)
usePerformanceMonitor(initialSettings) ==
  [pc |-> "monitoring", initialSettings |-> initialSettings,
   adaptiveSettings |-> initialSettings, before |-> initialSettings]
(***************************************************************************)
(* A failure handler as the sequence of store writes it makes.  zustand     *)
(* calls every listener synchronously inside each set().                    *)
(***************************************************************************)
FailHandlers == {"watchdog", "canvas", "preloadTimeout", "preloadError"}

Write(op, arg) == [op |-> op, arg |-> arg]

\* The writes of the handler h in the generation v.
FailWrites(v, h) ==
  IF h = "watchdog"
  THEN IF v = "ts"
       THEN <<Write("setSafe", TRUE), Write("setError", "BOOT_TIMEOUT"),
              Write("setBooting", FALSE)>>
       ELSE <<Write("set", "BOOT_TIMEOUT")>>
  ELSE IF h = "canvas"
  THEN IF v = "ts"
       THEN <<Write("setSafe", TRUE), Write("setError", "WEBGL_FAIL"),
              Write("setBooting", FALSE)>>
       ELSE <<Write("set", "WEBGL_FAIL")>>
  ELSE IF h = "preloadTimeout"
  THEN <<Write("setError", "ASSET_TIMEOUT"), Write("setSafe", TRUE)>>
  ELSE <<Write("setError", "INIT_ERROR"), Write("setSafe", TRUE)>>

\* One set() on the store.
ApplyWrite(s, w) ==
  IF w.op = "setSafe" THEN setSafe(s, w.arg)
  ELSE IF w.op = "setError" THEN setError(s, w.arg)
  ELSE IF w.op = "setBooting" THEN setBooting(s, w.arg)
  ELSE setBoot(s, FALSE, w.arg, {TRUE})

NoTxn == [pc |-> "idle", handler |-> "none", writes |-> <<>>]

BeginHandler(v, h) ==
  [pc |-> "running", handler |-> h, writes |-> FailWrites(v, h)]

ExtraIdle ==
  /\ layout = NoLayout
  /\ preload = NoPreload
  /\ perf = NoPerf
  /\ txn = NoTxn

(***************************************************************************)
(* Initial state: the store module has been evaluated (initializePreferences*)
(* and initializeBoot have run), nothing is mounted yet.                    *)
(***************************************************************************)
Init ==
  /\ variant \in Variants
  /\ strictMode \in BOOLEAN
  /\ isFile \in BOOLEAN
  /\ \E mobile, reduced \in BOOLEAN :
       store = initializeBoot(
                  initializePreferences(InitialStore, mobile, reduced), isFile)
  /\ sceneMounted = FALSE
  /\ canvasCreated = FALSE
  /\ contentCommitted = FALSE
  /\ initGuardRef = FALSE
  /\ watchdogRef = FALSE
  /\ wdTimer = IF variant = "js" THEN "pending" ELSE "none"
  /\ wdAttempt = 0
  /\ wdSubscribed = (variant = "js")
  /\ bootMark = "none"
  /\ objs = [o \in Objs |-> "unmounted"]
  /\ loadedIn = [o \in Objs |-> NeverLoaded]
  /\ attempt = 0
  /\ fires = 0
  /\ lastOp = "Init"
  /\ prev = store
  /\ guard = NoGuard
  /\ retryRun = NoRetryRun
  /\ batch = NoBatch
  /\ view = NoView
  /\ dive = NoDive
  /\ ExtraIdle

(***************************************************************************)
(* Handlers                                                                *)
(***************************************************************************)
\* ts: Scene mounts; the watchdog effect and the subscription effect run.
SceneMount ==
  /\ variant = "ts"
  /\ ~sceneMounted
  /\ LET e == SceneMountEffects([guard |-> initGuardRef, timer |-> wdTimer,
                                 ref |-> watchdogRef], strictMode)
     IN /\ initGuardRef' = e.guard
        /\ wdTimer' = e.timer
        /\ watchdogRef' = e.ref
  /\ wdAttempt' = attempt
  /\ wdSubscribed' = TRUE
  /\ sceneMounted' = TRUE
  /\ lastOp' = "SceneMount"
  /\ prev' = store
  /\ UNCHANGED utilVars
  /\ UNCHANGED <<variant, strictMode, isFile, store, canvasCreated,
                 contentCommitted, bootMark, objs, loadedIn, attempt, fires,
                 dive>>

\* The Canvas reports creation; the capability probe runs.
CanvasCreated(probe) ==
  /\ ~canvasCreated
  /\ variant = "ts" => sceneMounted
  /\ CommitFrom(IF variant = "ts" THEN handleCanvasCreatedTS(store, probe)
                ELSE handleCanvasCreatedJS(store, probe), wdTimer,
                IF variant = "js" THEN DiveMount(variant, dive, store, strictMode)
                ELSE dive)
  /\ canvasCreated' = TRUE
  /\ lastOp' = IF probe = "ok" THEN "CanvasCreatedOk" ELSE "CanvasCreatedFail"
  /\ UNCHANGED utilVars
  /\ UNCHANGED <<variant, strictMode, isFile, sceneMounted, contentCommitted,
                 initGuardRef, wdAttempt, bootMark, attempt, fires>>

\* ts: the children of the Canvas commit and their effects run in one flush:
\* BootMark arms its timer, every rendered Safe* object reads safeMode and, if
\* it is off, starts its guarded preload; the preloads settle in the
\* microtasks that follow, after every effect has read safeMode.
ContentCommit(outs) ==
  /\ variant = "ts"
  /\ canvasCreated
  /\ ~contentCommitted
  /\ contentCommitted' = TRUE
  /\ bootMark' = "pending"
  /\ LET S == {o \in Objs : ShouldMount(o, store)}
         new == IF store.safeMode THEN store ELSE PreloadAll(store, S, outs, 1)
     IN /\ store' = new
        /\ wdTimer' = TimerAfterSet(wdTimer, watchdogRef, store, new)
        /\ watchdogRef' = RefAfterSet(watchdogRef, store, new)
        /\ wdSubscribed' = SubscribedAfterSet(store, new)
        /\ objs' = Reconcile([o \in Objs |->
                                IF o \in S THEN MountedAs(store, outs[o])
                                ELSE objs[o]], new)
        /\ loadedIn' = ReconcileLoads([o \in Objs |->
                                         IF o \in S /\ StartsPreload(store)
                                         THEN attempt ELSE loadedIn[o]], new)
        /\ dive' = DiveAfterSet(variant, TRUE,
                                DiveMount(variant, dive, store, strictMode),
                                store, new)
        /\ lastOp' = IF new = store THEN "ContentCommit"
                     ELSE "ContentCommitFail"
  /\ prev' = store
  /\ UNCHANGED utilVars
  /\ UNCHANGED <<variant, strictMode, isFile, sceneMounted, canvasCreated,
                 initGuardRef, wdAttempt, attempt, fires>>

\* ts: BootMark's timer fires.
BootMarkFire ==
  /\ bootMark = "pending"
  /\ Commit(setBooting(store, FALSE), wdTimer)
  /\ bootMark' = "fired"
  /\ lastOp' = "BootMarkFire"
  /\ UNCHANGED utilVars
  /\ UNCHANGED <<variant, strictMode, isFile, sceneMounted, canvasCreated,
                 contentCommitted, initGuardRef, wdAttempt, attempt, fires>>

\* The watchdog timer fires and its callback runs.
WatchdogFire ==
  /\ wdTimer = "pending"
  /\ Commit(WatchdogCallback(variant, store), "fired")
  /\ fires' = IF WatchdogCallback(variant, store) # store
              THEN fires + 1 ELSE fires
  /\ lastOp' = "WatchdogFire"
  /\ UNCHANGED utilVars
  /\ UNCHANGED <<variant, strictMode, isFile, sceneMounted, canvasCreated,
                 contentCommitted, initGuardRef, wdAttempt, bootMark, attempt>>

\* ts: a Safe* object mounts and its effect runs: procedural at once in Safe
\* Mode, otherwise the guarded preload decides.
ObjectMount(o, outcome) ==
  /\ variant = "ts"
  /\ contentCommitted
  /\ objs[o] = "unmounted"
  /\ ShouldMount(o, store)
  /\ LET new == IF store.safeMode THEN store
                ELSE safePreloadGLTF(store, outcome).state
     IN /\ store' = new
        /\ wdTimer' = TimerAfterSet(wdTimer, watchdogRef, store, new)
        /\ watchdogRef' = RefAfterSet(watchdogRef, store, new)
        /\ wdSubscribed' = SubscribedAfterSet(store, new)
        /\ objs' = Reconcile([objs EXCEPT ![o] = MountedAs(store, outcome)],
                             new)
        /\ loadedIn' = ReconcileLoads(
                          [loadedIn EXCEPT ![o] = IF StartsPreload(store)
                                                  THEN attempt ELSE @], new)
        /\ dive' = DiveAfterSet(variant, TRUE, dive, store, new)
  /\ lastOp' = IF store.safeMode \/ outcome = "ok"
               THEN "ObjectMount" ELSE "ObjectMountFail"
  /\ prev' = store
  /\ UNCHANGED utilVars
  /\ UNCHANGED <<variant, strictMode, isFile, sceneMounted, canvasCreated,
                 contentCommitted, initGuardRef, wdAttempt, bootMark, attempt,
                 fires>>

\* The Retry button of the error banner (shown while bootError is set).
Retry ==
  /\ store.bootError # null
  /\ attempt < MaxAttempts
  /\ Commit(retryBoot(variant, store, isFile), wdTimer)
  /\ attempt' = attempt + 1
  /\ fires' = 0
  /\ lastOp' = "Retry"
  /\ UNCHANGED utilVars
  /\ UNCHANGED <<variant, strictMode, isFile, sceneMounted, canvasCreated,
                 contentCommitted, initGuardRef, wdAttempt, bootMark>>

\* js: the "Continue in Safe Mode" button of the BootLoader.
ContinueInSafeMode ==
  /\ variant = "js"
  /\ store.bootError # null
  /\ store.safeMode
  /\ Commit(continueInSafeMode(store), wdTimer)
  /\ lastOp' = "Continue"
  /\ UNCHANGED utilVars
  /\ UNCHANGED <<variant, strictMode, isFile, sceneMounted, canvasCreated,
                 contentCommitted, initGuardRef, wdAttempt, bootMark, attempt,
                 fires>>

\* The 'l' keyboard shortcut.
ToggleLowPowerMode ==
  /\ Commit(toggleLowPowerMode(store), wdTimer)
  /\ lastOp' = "ToggleLowPowerMode"
  /\ UNCHANGED utilVars
  /\ UNCHANGED <<variant, strictMode, isFile, sceneMounted, canvasCreated,
                 contentCommitted, initGuardRef, wdAttempt, bootMark, attempt,
                 fires>>

\* ts: the Dive button of the Overlay, shown after boot at the surface.
handleDiveTS(s) == handleFirstScroll(setDiving(s, TRUE))

\* js: the Dive button of the Overlay.
handleDive(s) == setDiving(s, TRUE)

\* js: the wheel listener of DiveSystem.
handleWheel(s) ==
  IF ~s.isDiving /\ s.depth < SurfaceLimit THEN handleFirstScroll(s) ELSE s

DiveFrame ==
  UNCHANGED <<variant, strictMode, isFile, sceneMounted, canvasCreated,
              contentCommitted, initGuardRef, wdAttempt, bootMark, attempt,
              fires>>

DiveButton ==
  /\ ~store.isDiving
  /\ IF variant = "ts" THEN ~store.isBooting /\ store.depth < SurfaceLimit
     ELSE ~store.canResurface
  /\ Commit(IF variant = "ts" THEN handleDiveTS(store) ELSE handleDive(store),
            wdTimer)
  /\ lastOp' = "DiveButton"
  /\ UNCHANGED utilVars
  /\ DiveFrame

\* js: the first wheel event after the listener was registered.
FirstScroll ==
  /\ variant = "js"
  /\ dive.wheel
  /\ CommitFrom(handleWheel(store), wdTimer, [dive EXCEPT !.wheel = FALSE])
  /\ lastOp' = "FirstScroll"
  /\ UNCHANGED utilVars
  /\ DiveFrame

\* A frame of the dive timeline: the camera moves, onUpdate sets the depth.
DiveTimelineUpdate ==
  /\ dive.diving
  /\ dive.cameraY # DiveEnd
  /\ LET y == NextKeyframe(dive.cameraY)
     IN CommitFrom(setDepth(store, NormalizedDepth(y)), wdTimer,
                   [dive EXCEPT !.cameraY = y])
  /\ lastOp' = "DiveTimelineUpdate"
  /\ UNCHANGED utilVars
  /\ DiveFrame

\* The dive timeline completes.
DiveTimelineComplete ==
  /\ dive.diving
  /\ dive.cameraY = DiveEnd
  /\ CommitFrom(setCanResurface(setDiving(store, FALSE), TRUE), wdTimer,
                [dive EXCEPT !.diving = FALSE])
  /\ lastOp' = "DiveTimelineComplete"
  /\ UNCHANGED utilVars
  /\ DiveFrame

\* js: the Surface button calls window.oceanPlayground.surface().
Surface ==
  /\ variant = "js"
  /\ canvasCreated
  /\ store.canResurface
  /\ dive' = [dive EXCEPT !.diving = FALSE, !.surfacing = TRUE, !.ref = TRUE]
  /\ prev' = store
  /\ lastOp' = "Surface"
  /\ UNCHANGED utilVars
  /\ DiveFrame
  /\ UNCHANGED <<store, wdTimer, watchdogRef, wdSubscribed, objs, loadedIn>>

\* js: a frame of the surface timeline.
SurfaceTimelineUpdate ==
  /\ dive.surfacing
  /\ CommitFrom(setDepth(store, NormalizedDepth(CameraSurface)), wdTimer,
                [dive EXCEPT !.cameraY = CameraSurface])
  /\ lastOp' = "SurfaceTimelineUpdate"
  /\ UNCHANGED utilVars
  /\ DiveFrame

\* js: the surface timeline completes.
SurfaceTimelineComplete ==
  /\ dive.surfacing
  /\ dive.cameraY = CameraSurface
  /\ CommitFrom(setCanResurface(setDiving(store, FALSE), FALSE), wdTimer,
                [dive EXCEPT !.surfacing = FALSE])
  /\ lastOp' = "SurfaceTimelineComplete"
  /\ UNCHANGED utilVars
  /\ DiveFrame

Next ==
  \/ SceneMount
  \/ \E probe \in ProbeOutcomes : CanvasCreated(probe)
  \/ \E outs \in [Objs -> PreloadOutcomes] : ContentCommit(outs)
  \/ BootMarkFire
  \/ WatchdogFire
  \/ \E o \in Objs, outcome \in PreloadOutcomes : ObjectMount(o, outcome)
  \/ Retry
  \/ ContinueInSafeMode
  \/ ToggleLowPowerMode
  \/ DiveButton
  \/ FirstScroll
  \/ DiveTimelineUpdate
  \/ DiveTimelineComplete
  \/ Surface
  \/ SurfaceTimelineUpdate
  \/ SurfaceTimelineComplete

Spec == Init /\ [][Next]_vars

\* Timers fire when due, React runs the effects of the tree it renders and
\* the Canvas reports its creation.
FairSpec ==
  /\ Spec
  /\ WF_vars(SceneMount)
  /\ WF_vars(\E probe \in ProbeOutcomes : CanvasCreated(probe))
  /\ WF_vars(\E outs \in [Objs -> PreloadOutcomes] : ContentCommit(outs))
  /\ WF_vars(BootMarkFire)
  /\ WF_vars(WatchdogFire)

TypeOK ==
  /\ variant \in Variants
  /\ store \in StoreStates
  /\ wdTimer \in {"none", "pending", "cleared", "fired"}
  /\ bootMark \in {"none", "pending", "fired"}
  /\ objs \in [Objs -> {"unmounted", "gltf", "procedural"}]
  /\ loadedIn \in [Objs -> NeverLoaded..MaxAttempts]
  /\ attempt \in 0..MaxAttempts
  /\ fires \in 0..1
  /\ prev \in StoreStates

(***************************************************************************)
(* The store operations applied to every store state: a second             *)
(* specification for the claims about what one operation returns.          *)
(***************************************************************************)
InitOps ==
  /\ variant \in Variants
  /\ strictMode = FALSE
  /\ isFile \in BOOLEAN
  /\ store \in StoreStates
  /\ sceneMounted = FALSE
  /\ canvasCreated = FALSE
  /\ contentCommitted = FALSE
  /\ initGuardRef = FALSE
  /\ watchdogRef = FALSE
  /\ wdTimer = "none"
  /\ wdAttempt = 0
  /\ wdSubscribed = FALSE
  /\ bootMark = "none"
  /\ objs = [o \in Objs |-> "unmounted"]
  /\ loadedIn = [o \in Objs |-> NeverLoaded]
  /\ attempt = 0
  /\ fires = 0
  /\ lastOp = "Input"
  /\ prev = store
  /\ guard = NoGuard
  /\ retryRun = NoRetryRun
  /\ batch = NoBatch
  /\ view = NoView
  /\ dive = NoDive
  /\ ExtraIdle

OpsFrame ==
  UNCHANGED <<guard, retryRun, batch, view, dive, extraVars, variant,
              strictMode, isFile, sceneMounted, canvasCreated,
              contentCommitted, initGuardRef, watchdogRef, wdTimer, wdAttempt,
              wdSubscribed, bootMark, objs, loadedIn, attempt, fires>>

\* The watchdog callback runs on the store.
OpWatchdogCallback ==
  /\ lastOp = "Input"
  /\ store' = WatchdogCallback(variant, store)
  /\ prev' = store
  /\ lastOp' = "OpWatchdogCallback"
  /\ OpsFrame

\* retryBoot() runs on the store.
OpRetryBoot ==
  /\ lastOp = "Input"
  /\ store' = retryBoot(variant, store, isFile)
  /\ prev' = store
  /\ lastOp' = "OpRetryBoot"
  /\ OpsFrame

\* The scene renders on the store.
OpRender ==
  /\ lastOp = "Input"
  /\ view' = Render(variant, store)
  /\ prev' = store
  /\ lastOp' = "OpRender"
  /\ UNCHANGED <<guard, retryRun, batch, dive, extraVars, variant,
                 strictMode, isFile, store, sceneMounted, canvasCreated, contentCommitted, initGuardRef,
                 watchdogRef, wdTimer, wdAttempt, wdSubscribed, bootMark,
                 objs, loadedIn, attempt, fires>>

\* initializeBoot() runs on the store; the js generation also arms the
\* watchdog timer and its subscription.
OpInitializeBoot ==
  /\ lastOp = "Input"
  /\ store' = initializeBoot(store, isFile)
  /\ wdTimer' = IF variant = "js" THEN "pending" ELSE wdTimer
  /\ wdSubscribed' = (variant = "js" \/ wdSubscribed)
  /\ prev' = store
  /\ lastOp' = "OpInitializeBoot"
  /\ UNCHANGED <<guard, retryRun, batch, view, dive, extraVars, variant,
                 strictMode, isFile,
                 sceneMounted, canvasCreated, contentCommitted, initGuardRef,
                 watchdogRef, wdAttempt, bootMark, objs, loadedIn, attempt,
                 fires>>

\* Arguments of setDepth below, inside and above the range of a depth, and
\* camera heights above, inside and below the span of the dive.
DepthArgs == {0 - DepthOne, 0 - 1, ShallowDepth, DepthOne + 1, 2 * DepthOne}
CameraHeights == {0 - 100, DiveEnd, 2, CameraSurface, 100}

\* setDepth(depth) runs on the store.
OpSetDepth(depth) ==
  /\ lastOp = "Input"
  /\ store' = setDepth(store, depth)
  /\ prev' = store
  /\ lastOp' = "OpSetDepth"
  /\ OpsFrame

\* onUpdate of a dive or surface timeline runs with the camera at height y.
OpTimelineUpdate(y) ==
  /\ lastOp = "Input"
  /\ store' = setDepth(store, NormalizedDepth(y))
  /\ prev' = store
  /\ lastOp' = "OpTimelineUpdate"
  /\ OpsFrame

\* handleFirstScroll() runs on the store.
OpHandleFirstScroll ==
  /\ lastOp = "Input"
  /\ store' = handleFirstScroll(store)
  /\ prev' = store
  /\ lastOp' = "OpHandleFirstScroll"
  /\ OpsFrame

NextOps ==
  \/ OpWatchdogCallback
  \/ OpRetryBoot
  \/ OpRender
  \/ OpInitializeBoot
  \/ \E depth \in DepthArgs : OpSetDepth(depth)
  \/ \E y \in CameraHeights : OpTimelineUpdate(y)
  \/ OpHandleFirstScroll

SpecOps == InitOps /\ [][NextOps]_vars

(***************************************************************************)
(* Properties                                                              *)
(***************************************************************************)
BootFields(s) == <<s.isBooting, s.bootError, s.safeMode>>

RunningClean(s) == ~s.isBooting /\ s.bootError = null /\ ~s.safeMode

\* C1: once a boot attempt has left Booting, a later failure signal of the
\* same attempt (probe failure, asset preload failure, watchdog) changes
\* neither isBooting nor bootError nor safeMode.
C1_FirstTransitionWins ==
  (/\ lastOp \in {"CanvasCreatedFail", "ContentCommitFail", "ObjectMountFail",
                  "WatchdogFire"}
   /\ ~prev.isBooting)
  => BootFields(store) = BootFields(prev)

\* C2: a completion or failure signal of the boot sequence (canvas created,
\* BootMark, probe failure, watchdog) that arrives after the phase has left
\* Booting leaves isBooting, bootError and safeMode as the first signal set
\* them.
C2_IdempotentCompletion ==
  (/\ lastOp \in {"CanvasCreatedOk", "BootMarkFire", "CanvasCreatedFail",
                  "WatchdogFire"}
   /\ ~prev.isBooting)
  => BootFields(store) = BootFields(prev)

\* C3: a watchdog that fires while the store is still booting leaves
\* isBooting = false, bootError = BOOT_TIMEOUT, safeMode = true, and it is the
\* only such fire of the attempt.
C3_WatchdogTimeout ==
  /\ (lastOp = "WatchdogFire" /\ prev.isBooting)
       => /\ BootFields(store) = <<FALSE, "BOOT_TIMEOUT", TRUE>>
          /\ fires = 1
          /\ wdTimer # "pending"
  /\ fires <= 1

C3_Witness ==
  /\ lastOp = "WatchdogFire"
  /\ prev.isBooting
  /\ store.bootError = "BOOT_TIMEOUT"

\* C4: the watchdog callback run on a store on which complete() has already
\* been called (isBooting = false, no error, no Safe Mode) changes nothing.
C4_WatchdogAfterComplete ==
  (/\ lastOp \in {"OpWatchdogCallback", "WatchdogFire"}
   /\ RunningClean(prev))
  => store = prev

C4_Witness ==
  /\ lastOp = "OpWatchdogCallback"
  /\ RunningClean(prev)
  /\ RunningClean(store)

\* C5: whenever the store is booting (and, for the Scene-owned watchdog, the
\* Scene has mounted) exactly one watchdog timer is pending, armed for the
\* current boot attempt.
C5_OneWatchdogWhileBooting ==
  (store.isBooting /\ (variant = "ts" => sceneMounted))
  => (wdTimer = "pending" /\ wdAttempt = attempt)

\* C6: under fair firing of timers every booting state is eventually followed
\* by a state that is not booting.
C6_NeverStuckBooting == store.isBooting ~> ~store.isBooting

\* C7: a pending watchdog timer exists only while booting and only in the
\* attempt that armed it, so no watchdog callback changes the store of a
\* later attempt.
C7_NoStaleWatchdog ==
  /\ wdTimer = "pending" => (store.isBooting /\ wdAttempt = attempt)
  /\ (lastOp = "WatchdogFire" /\ store # prev) => wdAttempt = attempt

C7_Witness ==
  /\ lastOp = "Retry"
  /\ ~strictMode
  /\ attempt >= 1
  /\ store.isBooting
  /\ wdAttempt < attempt
  /\ wdTimer = "cleared"

\* C8: retryBoot() on any store, Running or Degraded with any boot error,
\* leaves isBooting = true, bootError = null, safeMode = false.
C8_RetryResets ==
  lastOp \in {"OpRetryBoot", "Retry"}
  => BootFields(store) = <<TRUE, null, FALSE>>

C8_Witness ==
  /\ lastOp = "OpRetryBoot"
  /\ BootFields(prev) = <<FALSE, "ASSET_TIMEOUT", TRUE>>
  /\ BootFields(store) = <<TRUE, null, FALSE>>

\* C9: the "Continue in Safe Mode" action taken from Degraded leaves
\* isBooting = false, bootError = null and safeMode = true.
C9_ContinueKeepsSafeMode ==
  (lastOp = "Continue" /\ Phase(prev) = "Degraded")
  => BootFields(store) = <<FALSE, null, TRUE>>

\* C10: while booting there is no boot error and no Safe Mode, and a boot
\* error is only ever present together with Safe Mode outside Booting.
C10_ErrorOnlyOutsideBooting ==
  /\ store.isBooting => (store.bootError = null /\ ~store.safeMode)
  /\ store.bootError # null => (store.safeMode /\ ~store.isBooting)

(***************************************************************************)
(* withTimeout on the event loop: a third specification.  The call has     *)
(* been made on an operation that is pending, already fulfilled or already  *)
(* rejected; microtasks (promise reactions) run before the next timer.      *)
(***************************************************************************)
BootIdle ==
  /\ variant = "ts"
  /\ strictMode = FALSE
  /\ isFile = FALSE
  /\ store = InitialStore
  /\ sceneMounted = FALSE
  /\ canvasCreated = FALSE
  /\ contentCommitted = FALSE
  /\ initGuardRef = FALSE
  /\ watchdogRef = FALSE
  /\ wdTimer = "none"
  /\ wdAttempt = 0
  /\ wdSubscribed = FALSE
  /\ bootMark = "none"
  /\ objs = [o \in Objs |-> "unmounted"]
  /\ loadedIn = [o \in Objs |-> NeverLoaded]
  /\ attempt = 0
  /\ fires = 0
  /\ prev = store
  /\ dive = NoDive

BootFrame ==
  UNCHANGED <<variant, strictMode, isFile, store, sceneMounted, canvasCreated,
              contentCommitted, initGuardRef, watchdogRef, wdTimer, wdAttempt,
              wdSubscribed, bootMark, objs, loadedIn, attempt, fires,
              prev, dive>>

InitGuard ==
  /\ BootIdle
  /\ \E p \in Promises, ms \in Deadlines, label \in Labels :
       guard = withTimeout(p, ms, label)
  /\ retryRun = NoRetryRun
  /\ batch = NoBatch
  /\ view = NoView
  /\ ExtraIdle
  /\ lastOp = "withTimeout"

\* The wrapped operation settles; its reaction is queued.
OpSettles(p) ==
  /\ guard.op.state = "pending"
  /\ p.state # "pending"
  /\ guard' = [guard EXCEPT !.op = p, !.jobs = TRUE,
                            !.first = IF @ = "none" THEN "op" ELSE @]
  /\ lastOp' = "OpSettles"
  /\ BootFrame
  /\ UNCHANGED <<retryRun, batch, view, extraVars>>

\* The microtask runs: the then or the catch callback of withTimeout.
RunReaction ==
  /\ guard.jobs
  /\ guard' = CountSettle(guard, [GuardReaction(guard) EXCEPT !.jobs = FALSE])
  /\ lastOp' = "RunReaction"
  /\ BootFrame
  /\ UNCHANGED <<retryRun, batch, view, extraVars>>

\* The timer is due and no microtask is left: the timeout callback runs.
TimerFires ==
  /\ guard.timer = "pending"
  /\ ~guard.jobs
  /\ guard.now >= guard.due
  /\ guard' = CountSettle(guard, [GuardOnTimeout(guard) EXCEPT
                                    !.first = IF @ = "none" THEN "timer" ELSE @])
  /\ lastOp' = "TimerFires"
  /\ BootFrame
  /\ UNCHANGED <<retryRun, batch, view, extraVars>>

\* Time passes.
Tick ==
  /\ guard.now < MaxTime
  /\ ~guard.jobs
  /\ guard' = [guard EXCEPT !.now = @ + 1]
  /\ lastOp' = "Tick"
  /\ BootFrame
  /\ UNCHANGED <<retryRun, batch, view, extraVars>>

NextGuard ==
  \/ \E p \in Promises : OpSettles(p)
  \/ RunReaction
  \/ TimerFires
  \/ Tick

SpecGuard == InitGuard /\ [][NextGuard]_vars

\* What the first event says the returned promise settles with.
GuardExpected(g) ==
  CASE g.first = "timer" -> Rejected(g.label)
    [] g.first = "op" -> g.op
    [] OTHER -> PendingPromise

\* C11: the promise withTimeout returns changes state at most once, and once
\* the reaction of the first event has run it is the outcome of that event:
\* the operation's value or the operation's own error if the operation
\* settled first, the timeout error carrying the label if the timer came
\* first; nothing that happens later changes it.
C11_GuardFirstEventWins ==
  /\ guard.settles <= 1
  /\ guard.promise.state # "pending" => guard.promise = GuardExpected(guard)
  /\ (guard.first # "none" /\ ~guard.jobs) => guard.promise.state # "pending"

\* The operation rejected with its own error after the timer was armed and
\* before it fired; the timer was cleared and the error passed through.
C11_Witness ==
  /\ lastOp = "RunReaction"
  /\ guard.op.state = "rejected"
  /\ guard.op.with \notin Labels
  /\ guard.promise = guard.op
  /\ guard.timer = "cleared"
  /\ guard.now > 0

\* C12: with a deadline of 0 ms or less the promise withTimeout returns
\* settles with the timeout rejection, whatever the state of the wrapped
\* operation at call time and whatever the order of the callbacks.
C12_NonPositiveDeadlineTimesOut ==
  (guard.timer # "none" /\ guard.ms <= 0 /\ guard.promise.state # "pending")
    => guard.promise = Rejected(guard.label)

\* C13: a single asset load that fails while the object has a procedural
\* fallback leaves isBooting, bootError and safeMode as they were.
C13_AssetFailureKeepsBootState ==
  lastOp \in {"ObjectMountFail", "ContentCommitFail"}
    => BootFields(store) = BootFields(prev)

(***************************************************************************)
(* batchPreloadGLTF: a fourth specification.  The call has been made on a   *)
(* list of paths; the guarded loads settle in the order they were started.  *)
(***************************************************************************)
InitBatch ==
  /\ BootIdle
  /\ guard = NoGuard
  /\ retryRun = NoRetryRun
  /\ view = NoView
  /\ ExtraIdle
  /\ \E paths \in SeqsUpTo(Paths, MaxPaths), allow \in BOOLEAN,
        outs \in [Paths -> PreloadOutcomes] :
       batch = batchPreloadGLTF(paths, allow, outs)
  /\ lastOp = "batchPreloadGLTF"

BatchFrame ==
  UNCHANGED <<variant, strictMode, isFile, sceneMounted, canvasCreated,
              contentCommitted, initGuardRef, watchdogRef, wdTimer, wdAttempt,
              wdSubscribed, bootMark, objs, loadedIn, attempt, fires, guard,
              retryRun,
              view, dive, extraVars>>

\* The next safePreloadGLTF of the batch settles.
BatchLoadSettles ==
  /\ batch.pc = "loading"
  /\ Len(batch.results) < Len(batch.paths)
  /\ LET path == batch.paths[Len(batch.results) + 1]
         r == safePreloadGLTF(store, batch.outs[path])
     IN /\ store' = r.state
        /\ batch' = [batch EXCEPT
                       !.results = Append(@, SettledResult(r.result))]
  /\ prev' = store
  /\ lastOp' = "BatchLoadSettles"
  /\ BatchFrame

\* Promise.allSettled has fulfilled: the lists are built, the escalation
\* runs and the call returns.
BatchReturns ==
  /\ batch.pc = "loading"
  /\ Len(batch.results) = Len(batch.paths)
  /\ LET lists == CollectResults(batch.paths, batch.results, 1,
                                 [success |-> <<>>, failed |-> <<>>])
     IN /\ store' = BatchEscalate(store, lists.success,
                                  batch.allowPartialFailure)
        /\ batch' = [batch EXCEPT !.pc = "done", !.success = lists.success,
                                  !.failed = lists.failed,
                                  !.returned = "fulfilled"]
  /\ prev' = store
  /\ lastOp' = "BatchReturns"
  /\ BatchFrame

NextBatch == BatchLoadSettles \/ BatchReturns

SpecBatch == InitBatch /\ [][NextBatch]_vars

\* Indices of the paths whose own load succeeded / did not.
LoadedIdx(b) == {i \in 1..Len(b.paths) : b.outs[b.paths[i]] = "ok"}
NotLoadedIdx(b) == {i \in 1..Len(b.paths) : b.outs[b.paths[i]] # "ok"}

\* q lists the elements of paths at the indices I, in increasing index order.
ListsInOrder(q, paths, I) ==
  /\ Len(q) = Cardinality(I)
  /\ \A i \in I : q[Cardinality({j \in I : j <= i})] = paths[i]

Range(q) == {q[i] : i \in 1..Len(q)}

\* C14: the batch never rejects; when it has returned, success and failed
\* have no path in common, success lists exactly the input paths whose own
\* guarded load succeeded and failed exactly the others, each input
\* occurrence once and in input order.
C14_BatchPartialFailure ==
  /\ batch.returned # "rejected"
  /\ batch.pc = "done" =>
       /\ batch.returned = "fulfilled"
       /\ Range(batch.success) \cap Range(batch.failed) = {}
       /\ ListsInOrder(batch.success, batch.paths, LoadedIdx(batch))
       /\ ListsInOrder(batch.failed, batch.paths, NotLoadedIdx(batch))

\* Three loads, the second failed: two successes and one failure.
C14_Witness ==
  /\ batch.pc = "done"
  /\ Len(batch.paths) = 3
  /\ Len(batch.success) = 2
  /\ batch.failed = <<batch.paths[2]>>
  /\ batch.returned = "fulfilled"

(***************************************************************************)
(* withRetry: a fifth specification.  The call has been made; the factory   *)
(* is invoked, its promise settles (or never does), the delay elapses.      *)
(***************************************************************************)
InitRetry ==
  /\ BootIdle
  /\ guard = NoGuard
  /\ batch = NoBatch
  /\ view = NoView
  /\ ExtraIdle
  /\ \E maxRetries \in 0..MaxRetries, baseDelay \in BaseDelays :
       retryRun = withRetry(maxRetries, baseDelay)
  /\ lastOp = "withRetry"

InvokeFactory ==
  /\ retryRun.pc = "invoke"
  /\ retryRun' = RetryInvokeFactory(retryRun)
  /\ lastOp' = "InvokeFactory"
  /\ BootFrame
  /\ UNCHANGED <<guard, batch, view, extraVars>>

FactorySettles(outcome) ==
  /\ retryRun.pc = "awaiting"
  /\ retryRun' = IF outcome = "ok" THEN RetryOnSuccess(retryRun)
                 ELSE RetryOnFailure(retryRun)
  /\ lastOp' = "FactorySettles"
  /\ BootFrame
  /\ UNCHANGED <<guard, batch, view, extraVars>>

DelayElapses ==
  /\ retryRun.pc = "delay"
  /\ retryRun' = RetryNextAttempt(retryRun)
  /\ lastOp' = "DelayElapses"
  /\ BootFrame
  /\ UNCHANGED <<guard, batch, view, extraVars>>

NextRetry ==
  \/ InvokeFactory
  \/ \E outcome \in FactoryOutcomes : FactorySettles(outcome)
  \/ DelayElapses

SpecRetry == InitRetry /\ [][NextRetry]_vars

\* C15: the factory is invoked at most maxRetries + 1 times and at least
\* once before withRetry settles; a fulfilled result is the value of the
\* first successful invocation, which is also the last invocation; the
\* delay waited after failed attempt k is baseDelay * 2^k; a rejection
\* carries the error of the last attempt and comes only after all
\* maxRetries + 1 invocations failed.
C15_RetryWithBackoff ==
  LET r == retryRun
  IN /\ r.calls <= r.maxRetries + 1
     /\ r.pc = "done" => r.calls >= 1
     /\ \A k \in 1..Len(r.delays) :
          /\ r.outcomes[k] = "fail"
          /\ r.delays[k] = r.baseDelay * (2 ^ (k - 1))
     /\ r.pc \in {"delay", "invoke", "awaiting"} =>
          /\ r.result.state = "pending"
          /\ Len(r.delays) = r.attempt + (IF r.pc = "delay" THEN 1 ELSE 0)
     /\ r.result.state = "fulfilled" =>
          /\ r.outcomes[r.calls] = "ok"
          /\ \A k \in 1..(r.calls - 1) : r.outcomes[k] = "fail"
          /\ r.result.with = r.calls - 1
          /\ Len(r.delays) = r.calls - 1
     /\ r.result.state = "rejected" =>
          /\ r.calls = r.maxRetries + 1
          /\ \A k \in 1..r.calls : r.outcomes[k] = "fail"
          /\ r.result.with = r.maxRetries
          /\ Len(r.delays) = r.maxRetries

\* Two failures, then a success on the third invocation, after delays of
\* baseDelay and 2 * baseDelay.
C15_Witness ==
  /\ retryRun.pc = "done"
  /\ retryRun.result = [state |-> "fulfilled", with |-> 2]
  /\ retryRun.calls = 3
  /\ retryRun.delays = <<1000, 2000>>

\* The counts of a view are at most those of another, field by field.
CountsLeq(a, b) ==
  /\ a.mainObjects <= b.mainObjects
  /\ a.decorativeObjects <= b.decorativeObjects
  /\ a.bubbles <= b.bubbles

LowPowerProfile(s) == [s EXCEPT !.safeMode = FALSE, !.lowPowerMode = TRUE]
NormalProfile(s) == [s EXCEPT !.safeMode = FALSE, !.lowPowerMode = FALSE]

\* C16: every count of a render in Safe Mode is at most the count of the
\* same device in low power mode without Safe Mode, which is at most the
\* count of the same device in normal mode without Safe Mode.
C16_PolicyMonotonicity ==
  lastOp = "OpRender" =>
    /\ store.safeMode =>
         CountsLeq(view, Render(variant, LowPowerProfile(store)))
    /\ CountsLeq(Render(variant, LowPowerProfile(store)),
                 Render(variant, NormalProfile(store)))

\* C17: a render in Safe Mode has post-processing, shadows and antialiasing
\* off, the pixel ratio fixed at 1, 2 main objects and at most 3 decorative
\* objects, on every device.
C17_SafeModeQuality ==
  (lastOp = "OpRender" /\ store.safeMode) =>
    /\ ~view.postProcessing
    /\ view.dpr = <<2, 2>>
    /\ ~view.shadows
    /\ ~view.antialias
    /\ view.mainObjects = 2
    /\ view.decorativeObjects <= 3

\* C18: in every state with Safe Mode on, every rendered Safe* object is in
\* its procedural variant, also when Safe Mode came on after the object was
\* mounted.
C18_NoGLTFInSafeMode ==
  store.safeMode => \A o \in Objs : objs[o] \in {"unmounted", "procedural"}

\* An object that is rendered procedurally because the guarded preload of an
\* earlier attempt failed.
FellBackEarlier(o) ==
  /\ objs[o] = "procedural"
  /\ loadedIn[o] # NeverLoaded
  /\ loadedIn[o] < attempt

\* C19: after a retry, every object that fell back to its procedural variant
\* because its load failed in an earlier attempt runs its guarded preload
\* again in the new attempt (or is no longer rendered).
C19_RetryReloadsAssets ==
  \A o \in Objs :
    (lastOp = "Retry" /\ FellBackEarlier(o))
      ~> (loadedIn[o] = attempt \/ objs[o] = "unmounted")

\* C20: a click on "Continue in Safe Mode" only writes the store: the store
\* is not booting afterwards, no object starts a preload or changes its
\* variant, no watchdog timer becomes pending and no BootMark timer is armed.
C20_ContinueOnlyTransitions ==
  [][ContinueInSafeMode =>
       /\ ~store'.isBooting
       /\ loadedIn' = loadedIn
       /\ objs' = objs
       /\ wdTimer' # "pending"
       /\ wdAttempt' = wdAttempt
       /\ bootMark' = bootMark]_vars

\* The button was clicked in Safe Mode after the watchdog timed out.
C20_Witness ==
  /\ lastOp = "Continue"
  /\ prev.bootError = "BOOT_TIMEOUT"
  /\ prev.safeMode
  /\ ~store.isBooting
  /\ store.bootError = null
  /\ wdTimer = "fired"

RunningReachable ==
  \/ variant = "js" /\ store.bootError # null /\ store.safeMode
  \/ ~canvasCreated
  \/ variant = "ts" /\ bootMark # "fired"

\* Once none of them is left and the store is not Running, no step changes
\* that: Running cannot be reached any more.
TrapIsClosed ==
  [][(~RunningReachable /\ Phase(store) # "Running")
       => (~RunningReachable' /\ Phase(store') # "Running")]_vars

\* C22: from every reachable Degraded state a Running state can be reached
\* through Retry or "Continue in Safe Mode" (by TrapIsClosed: a Degraded
\* state always has a handler left that can end a boot attempt cleanly).
C22_AlwaysRecoverable ==
  Phase(store) = "Degraded" => RunningReachable

\* C23: initializeBoot on a page served from file: sets protocolWarning and
\* leaves isBooting, bootError and safeMode as they were, whatever the store
\* held before; from any other origin it changes nothing in the store.
C23_FileProtocolAdvisory ==
  lastOp = "OpInitializeBoot" =>
    /\ BootFields(store) = BootFields(prev)
    /\ isFile => store = [prev EXCEPT !.protocolWarning = TRUE]
    /\ ~isFile => store = prev

\* initializeBoot ran from file: on a store that held an error.
C23_Witness ==
  /\ lastOp = "OpInitializeBoot"
  /\ isFile
  /\ ~prev.protocolWarning
  /\ store.protocolWarning
  /\ BootFields(store) = <<FALSE, "WEBGL_FAIL", TRUE>>

\* A dive request: the Dive button or the first wheel event.
DiveRequest == lastOp \in {"DiveButton", "FirstScroll"}

\* C24: with prefers-reduced-motion, a dive request made at the surface after
\* boot skips the animation: it leaves depth = 0.4, isDiving = false and
\* canResurface = true, for the wheel and for the Dive button alike.
C24_ReducedMotionSkipsDive ==
  (/\ DiveRequest
   /\ prev.prefersReducedMotion
   /\ ~prev.isBooting
   /\ ~prev.isDiving
   /\ prev.depth = 0)
    => /\ store.depth = ShallowDepth
       /\ ~store.isDiving
       /\ store.canResurface

(***************************************************************************)
(* generatePositions: a specification of its own.  The call has been made;  *)
(* each step is one pass of the inner loop, the fallback, or the return.    *)
(***************************************************************************)
Seeds == {0, 1, 4242}
LayoutBounds ==
  {[minX |-> 0 - 8, maxX |-> 8, minZ |-> 0 - 8, maxZ |-> 8],
   [minX |-> 0, maxX |-> 1, minZ |-> 0, maxZ |-> 1]}
MinDistances == {0, 2, 40}

InitLayout ==
  /\ BootIdle
  /\ guard = NoGuard
  /\ retryRun = NoRetryRun
  /\ batch = NoBatch
  /\ view = NoView
  /\ preload = NoPreload
  /\ perf = NoPerf
  /\ txn = NoTxn
  /\ \E count \in 0..MaxCount, bounds \in LayoutBounds,
        minDistance \in MinDistances, seed \in Seeds, dev \in BOOLEAN :
       layout = generatePositions(count, bounds, minDistance, seed, dev)
  /\ lastOp = "generatePositions"

LayoutFrame ==
  /\ BootFrame
  /\ UNCHANGED <<guard, retryRun, batch, view, preload, perf, txn>>

TryCandidate ==
  /\ layout.pc = "placing"
  /\ layout.i < layout.count
  /\ layout.attempt < maxAttempts
  /\ layout' = PlaceAttempt(layout)
  /\ lastOp' = "TryCandidate"
  /\ LayoutFrame

GiveUp ==
  /\ layout.pc = "placing"
  /\ layout.i < layout.count
  /\ layout.attempt = maxAttempts
  /\ layout' = PlaceFallback(layout)
  /\ lastOp' = "GiveUp"
  /\ LayoutFrame

LayoutReturns ==
  /\ layout.pc = "placing"
  /\ layout.i = layout.count
  /\ layout' = [layout EXCEPT !.pc = "done"]
  /\ lastOp' = "LayoutReturns"
  /\ LayoutFrame

NextLayout ==
  \/ TryCandidate
  \/ GiveUp
  \/ LayoutReturns

SpecLayout == InitLayout /\ [][NextLayout]_vars

InsideBounds(pos, bounds) ==
  /\ bounds.minX * FloatSteps <= pos[1]
  /\ pos[1] <= bounds.maxX * FloatSteps
  /\ bounds.minZ * FloatSteps <= pos[2]
  /\ pos[2] <= bounds.maxZ * FloatSteps

\* C25: generatePositions returns exactly count positions, all of them
\* inside the bounds and every two of them at least minDistance apart.
C25_PositionsSeparated ==
  layout.pc = "done" =>
    /\ Len(layout.positions) = layout.count
    /\ \A k \in 1..Len(layout.positions) :
         InsideBounds(layout.positions[k], layout.bounds)
    /\ \A j, k \in 1..Len(layout.positions) :
         j # k => ~TooClose(layout.positions[j], layout.positions[k],
                            layout.minDistance)

(***************************************************************************)
(* The store between the writes of one failure handler: a specification of  *)
(* its own.  Boot is in progress and a failure handler has been entered;    *)
(* each step is one set(), after which the listeners run on the store.      *)
(***************************************************************************)
BootingStores ==
  {s \in StoreStates : /\ s.isBooting /\ s.bootError = null /\ ~s.safeMode
                       /\ s.depth = 0 /\ ~s.isDiving /\ ~s.canResurface}

InitObserve ==
  /\ variant \in Variants
  /\ strictMode = FALSE
  /\ isFile = FALSE
  /\ store \in BootingStores
  /\ sceneMounted = FALSE
  /\ canvasCreated = FALSE
  /\ contentCommitted = FALSE
  /\ initGuardRef = FALSE
  /\ watchdogRef = FALSE
  /\ wdTimer = "none"
  /\ wdAttempt = 0
  /\ wdSubscribed = FALSE
  /\ bootMark = "none"
  /\ objs = [o \in Objs |-> "unmounted"]
  /\ loadedIn = [o \in Objs |-> NeverLoaded]
  /\ attempt = 0
  /\ fires = 0
  /\ prev = store
  /\ dive = NoDive
  /\ guard = NoGuard
  /\ retryRun = NoRetryRun
  /\ batch = NoBatch
  /\ view = NoView
  /\ layout = NoLayout
  /\ preload = NoPreload
  /\ perf = NoPerf
  /\ \E h \in FailHandlers :
       /\ variant = "js" => h \in {"watchdog", "canvas"}
       /\ txn = BeginHandler(variant, h)
  /\ lastOp = "HandlerEntered"

ObserveFrame ==
  UNCHANGED <<variant, strictMode, isFile, sceneMounted, canvasCreated,
              contentCommitted, initGuardRef, watchdogRef, wdTimer, wdAttempt,
              wdSubscribed, bootMark, objs, loadedIn, attempt, fires, dive,
              guard, retryRun, batch, view, layout, preload, perf>>

\* The handler makes its next set(); the listeners see the store it leaves.
StoreWrite ==
  /\ txn.pc = "running"
  /\ txn.writes # <<>>
  /\ store' = ApplyWrite(store, Head(txn.writes))
  /\ txn' = [txn EXCEPT !.writes = Tail(@)]
  /\ prev' = store
  /\ lastOp' = "StoreWrite"
  /\ ObserveFrame

HandlerReturns ==
  /\ txn.pc = "running"
  /\ txn.writes = <<>>
  /\ txn' = [txn EXCEPT !.pc = "done"]
  /\ lastOp' = "HandlerReturns"
  /\ UNCHANGED <<store, prev>>
  /\ ObserveFrame

NextObserve ==
  \/ StoreWrite
  \/ HandlerReturns

SpecObserve == InitObserve /\ [][NextObserve]_vars

\* What an observer may see: safeMode and bootError set together, and only
\* outside Booting.
ConsistentFailure(s) ==
  /\ s.safeMode <=> s.bootError # null
  /\ (s.safeMode \/ s.bootError # null) => ~s.isBooting

\* C26: the fail transition is atomic for observers: no listener or reader
\* of the store sees safeMode without bootError, bootError without safeMode,
\* or either of them while isBooting is true.
C26_FailTransitionAtomic == txn.pc # "idle" => ConsistentFailure(store)

(***************************************************************************)
(* safePreloadGLTF next to the asset load: a specification of its own.      *)
(* The call has reached its await; the reaction of the guard runs, time     *)
(* passes, the load finishes or fails some time later, the call returns.    *)
(* The wrapped promise is settled when withTimeout receives it, so the      *)
(* timer of the guard is cleared before it can be due (TimerNeverDue).      *)
(***************************************************************************)
InitPreload ==
  /\ BootIdle
  /\ retryRun = NoRetryRun
  /\ batch = NoBatch
  /\ view = NoView
  /\ layout = NoLayout
  /\ perf = NoPerf
  /\ txn = NoTxn
  /\ \E sync \in PreloadOutcomes, ms \in Deadlines :
       /\ preload = PreloadCall(sync, ms)
       /\ guard = withTimeout(preloadPromise(sync), ms, "ASSET_TIMEOUT")
  /\ lastOp = "safePreloadGLTF"

\* The asset load finishes or fails; a load takes time.
AssetSettles(outcome) ==
  /\ preload.pc # "idle"
  /\ preload.load = "pending"
  /\ guard.now >= 1
  /\ preload' = [preload EXCEPT !.load = IF outcome = "ok" THEN "loaded"
                                         ELSE "failed"]
  /\ lastOp' = "AssetSettles"
  /\ BootFrame
  /\ UNCHANGED <<guard, retryRun, batch, view, layout, perf, txn>>

\* The await yields and the call returns.
PreloadReturns ==
  /\ preload.pc = "awaiting"
  /\ guard.promise.state # "pending"
  /\ LET r == safePreloadGLTF(store, AwaitOutcome(guard))
     IN /\ store' = r.state
        /\ preload' = [preload EXCEPT !.pc = "done", !.result = r.result,
                                      !.loadAtReturn = preload.load]
  /\ prev' = store
  /\ lastOp' = "PreloadReturns"
  /\ UNCHANGED <<variant, strictMode, isFile, sceneMounted, canvasCreated,
                 contentCommitted, initGuardRef, watchdogRef, wdTimer,
                 wdAttempt, wdSubscribed, bootMark, objs, loadedIn, attempt,
                 fires, dive, guard, retryRun, batch, view, layout, perf, txn>>

NextPreload ==
  \/ RunReaction
  \/ Tick
  \/ \E outcome \in PreloadOutcomes : AssetSettles(outcome)
  \/ PreloadReturns

SpecPreload == InitPreload /\ [][NextPreload]_vars

\* In SpecPreload the timer of the guard is never due with no reaction left.
TimerNeverDue == ~(guard.timer = "pending" /\ ~guard.jobs)

\* C27: safePreloadGLTF returns true only when the load had finished by the
\* deadline, false with ASSET_TIMEOUT exactly when the load was unfinished
\* at the deadline, false with INIT_ERROR for every other failure.
C27_PreloadResultMatchesLoad ==
  preload.pc = "done" =>
    /\ preload.result = TRUE => preload.loadAtReturn = "loaded"
    /\ (preload.result = FALSE /\ store.bootError = "ASSET_TIMEOUT")
         <=> (preload.loadAtReturn = "pending"
              /\ guard.now >= TimerDelay(preload.timeoutMs))
    /\ (preload.result = FALSE /\ store.bootError = "INIT_ERROR")
         <=> preload.loadAtReturn = "failed"

DiveFields(s) == <<s.depth, s.isDiving, s.canResurface>>

\* C28: while isBooting is true handleFirstScroll leaves depth, isDiving and
\* canResurface alone, and in every reachable state, retries during or after
\* a dive included, no dive timeline plays while isBooting is true.
C28_NoDiveWhileBooting ==
  /\ (lastOp = "FirstScroll" /\ prev.isBooting)
       => DiveFields(store) = DiveFields(prev)
  /\ store.isBooting => ~dive.diving

InitPerf ==
  /\ BootIdle
  /\ guard = NoGuard
  /\ retryRun = NoRetryRun
  /\ batch = NoBatch
  /\ view = NoView
  /\ layout = NoLayout
  /\ preload = NoPreload
  /\ txn = NoTxn
  /\ \E initialSettings \in AdaptiveSettings :
       perf = usePerformanceMonitor(initialSettings)
  /\ lastOp = "usePerformanceMonitor"

Optimize(currentFps) ==
  /\ perf.pc = "monitoring"
  /\ perf' = [perf EXCEPT
                !.before = perf.adaptiveSettings,
                !.adaptiveSettings =
                   optimizeForPerformance(perf.adaptiveSettings,
                                          perf.initialSettings, currentFps,
                                          perf.adaptiveSettings.targetFps)]
  /\ lastOp' = IF FpsBand(currentFps, perf.adaptiveSettings.targetFps) = "low"
               THEN "OptimizeLow"
               ELSE IF FpsBand(currentFps,
                               perf.adaptiveSettings.targetFps) = "high"
               THEN "OptimizeHigh" ELSE "OptimizeNone"
  /\ BootFrame
  /\ UNCHANGED <<guard, retryRun, batch, view, layout, preload, txn>>

NextPerf == \E currentFps \in FpsSamples : Optimize(currentFps)

SpecPerf == InitPerf /\ [][NextPerf]_vars

\* The tier of a shadow quality: off 0, low 1, medium 2, high 3.
ShadowTier(q) == Len(qualities) - IndexOf(q)

\* What can still be degraded in s, and what was degraded from b to a, in
\* the order jellyfish, sharks, post-processing, shadows, caustics, fog.
Degradable(s) ==
  <<s.jellyfishCount > JellyfishFloor * Tenths, s.sharkCount > SharkFloor,
    s.enablePostProcessing, s.shadowQuality # "off", s.enableCaustics,
    s.enableVolumetricFog>>

Degraded(b, a) ==
  <<a.jellyfishCount < b.jellyfishCount, a.sharkCount < b.sharkCount,
    b.enablePostProcessing /\ ~a.enablePostProcessing,
    ShadowTier(a.shadowQuality) < ShadowTier(b.shadowQuality),
    b.enableCaustics /\ ~a.enableCaustics,
    b.enableVolumetricFog /\ ~a.enableVolumetricFog>>

\* C30: after any sequence of optimizeForPerformance calls no count exceeds
\* its initial value, no feature is on that was initially off, the shadow
\* quality is no higher than initially, a reduced jellyfishCount is >= 60 and
\* a reduced sharkCount >= 1, and a low-FPS call degrades exactly the first
\* setting in the order that can still be degraded.
C30_AdaptiveSettingsBounded ==
  perf.pc = "monitoring" =>
    LET s == perf.adaptiveSettings
        i == perf.initialSettings
    IN /\ s.jellyfishCount <= i.jellyfishCount
       /\ s.sharkCount <= i.sharkCount
       /\ s.enablePostProcessing => i.enablePostProcessing
       /\ s.enableCaustics => i.enableCaustics
       /\ s.enableVolumetricFog => i.enableVolumetricFog
       /\ ShadowTier(s.shadowQuality) <= ShadowTier(i.shadowQuality)
       /\ s.jellyfishCount < i.jellyfishCount
            => s.jellyfishCount >= JellyfishFloor * Tenths
       /\ s.sharkCount < i.sharkCount => s.sharkCount >= SharkFloor
       /\ lastOp = "OptimizeLow" =>
            \A k \in 1..6 :
              Degraded(perf.before, s)[k]
                <=> (/\ Degradable(perf.before)[k]
                     /\ \A j \in 1..(k - 1) : ~Degradable(perf.before)[j])
====
